---- MODULE Spec2Model ----
(***************************************************************************)
(* A model of app.py of arc-fisheries-app: the PDF ledger extraction       *)
(* (extract_data), the normalisation of the extracted records              *)
(* (clean_dataframe, clean_amt), the upload tab of main and the save to    *)
(* the document store (save_to_firestore).                                 *)
(*                                                                         *)
(* Text is a sequence of one-character strings, so that the regular        *)
(* expressions, str.strip, str.replace, float() and the date conversions   *)
(* are computed character by character.                                    *)
(***************************************************************************)
EXTENDS Integers, Sequences, FiniteSets, TLC

VARIABLES pc, page, nrows, raw_data, df, message, current_df, db, store, saves,
          row, locals, amt

vars == <<pc, page, nrows, raw_data, df, message, current_df, db, store, saves,
          row, locals, amt>>

(***************************************************************************)
(* Bounds of the model.                                                    *)
(***************************************************************************)
MaxPages == 2
MaxRows == 2
MaxSaves == 2
MaxCols == 9
MaxTokLen == 4

(***************************************************************************)
(* Characters and text.                                                    *)
(***************************************************************************)
NL == "\n"
DigitSeq == <<"0", "1", "2", "3", "4", "5", "6", "7", "8", "9">>
Digits == {DigitSeq[i] : i \in 1..10}
Whitespace == {" ", NL, "\t"}

\* A pdfplumber cell that is None, and pandas' missing values.
None == <<"None">>
NaN == <<"NaN">>
NaT == [y |-> 0, m |-> 0, d |-> 0]

IsDigit(c) == c \in Digits
DigitVal(c) == (CHOOSE i \in 1..10 : DigitSeq[i] = c) - 1

RECURSIVE ToInt(_)
\* int() of a sequence of digits (the empty sequence counts 0).
ToInt(s) ==
    IF s = <<>> THEN 0
    ELSE 10 * ToInt(SubSeq(s, 1, Len(s) - 1)) + DigitVal(s[Len(s)])

RECURSIVE IntToStr(_)
\* str() of a non-negative integer.
IntToStr(n) ==
    IF n < 10 THEN <<DigitSeq[n + 1]>>
    ELSE IntToStr(n \div 10) \o <<DigitSeq[(n % 10) + 1]>>

\* "%02d"
Pad2(n) == IF n < 10 THEN <<"0">> \o IntToStr(n) ELSE IntToStr(n)

\* "%04d"
Pad4(n) ==
    IF n < 10 THEN <<"0", "0", "0">> \o IntToStr(n)
    ELSE IF n < 100 THEN <<"0", "0">> \o IntToStr(n)
    ELSE IF n < 1000 THEN <<"0">> \o IntToStr(n)
    ELSE IntToStr(n)

\* sub in s
Contains(s, sub) ==
    \E i \in 1..(Len(s) - Len(sub) + 1) : SubSeq(s, i, i + Len(sub) - 1) = sub

RECURSIVE LStrip(_)
LStrip(s) ==
    IF s # <<>> /\ s[1] \in Whitespace THEN LStrip(Tail(s)) ELSE s

RECURSIVE RStrip(_)
RStrip(s) ==
    IF s # <<>> /\ s[Len(s)] \in Whitespace
    THEN RStrip(SubSeq(s, 1, Len(s) - 1))
    ELSE s

\* str.strip()
Strip(s) == RStrip(LStrip(s))

\* str.replace('\n', ' ')
ReplaceNL(s) == [i \in 1..Len(s) |-> IF s[i] = NL THEN " " ELSE s[i]]

\* str.replace('/', '')
RemoveSlashes(s) == SelectSeq(s, LAMBDA c : c # "/")

\* clean_row[-k]
FromEnd(r, k) == r[Len(r) - k + 1]

(***************************************************************************)
(* extract_data: the body of the loop over the rows of a table.            *)
(***************************************************************************)
MinCols == 8
TotalMarker == <<"T", "o", "t", "a", "l">>

\* One cell of clean_row.
CleanCell(cell) == IF cell = None THEN <<>> ELSE ReplaceNL(Strip(cell))

\* clean_row of a raw table row.
CleanRow(r) == [i \in 1..Len(r) |-> CleanCell(r[i])]

RECURSIVE JoinRepr(_)
\* The cells of a list as str() writes them: 'a', 'b', 'c'
JoinRepr(r) ==
    IF r = <<>> THEN <<>>
    ELSE IF Len(r) = 1 THEN <<"'">> \o r[1] \o <<"'">>
    ELSE <<"'">> \o r[1] \o <<"'", ",", " ">> \o JoinRepr(Tail(r))

\* str(clean_row)
StrOfList(r) == <<"[">> \o JoinRepr(r) \o <<"]">>

\* any(clean_row)
AnyCell(r) == \E i \in 1..Len(r) : r[i] # <<>>

\* The junk test: not any(clean_row) or "Total" in str(clean_row)
IsJunk_NoTotal(clean_row) == ~AnyCell(clean_row)

IsJunk(clean_row) ==
    ~AnyCell(clean_row) \/ Contains(StrOfList(clean_row), TotalMarker)

\* A full-match of the monetary-token shape -?[\d,]+(\.\d{0,2})? on a token of
\* at least 2 characters: the validation the specification text describes.
MoneyShape(s) ==
    LET t == IF s # <<>> /\ s[1] = "-" THEN Tail(s) ELSE s
        dots == {i \in 1..Len(t) : t[i] = "."}
        p == IF dots = {} THEN Len(t) + 1
             ELSE CHOOSE i \in dots : \A j \in dots : i <= j
        head == SubSeq(t, 1, p - 1)
        tail == SubSeq(t, p + 1, Len(t))
    IN  /\ Len(s) >= 2
        /\ head # <<>>
        /\ \A i \in 1..Len(head) : IsDigit(head[i]) \/ head[i] = ","
        /\ Len(tail) <= 2
        /\ \A i \in 1..Len(tail) : IsDigit(tail[i])

\* amount_check_pattern.search(s), the pattern being [\d]
amount_check(s) == \E i \in 1..Len(s) : IsDigit(s[i])

\* The amount of a row: index -4, else the neighbours -5 then -3.
PickAmount_Swapped(clean_row) ==
    IF ~amount_check(FromEnd(clean_row, 4))
    THEN IF amount_check(FromEnd(clean_row, 3))
         THEN FromEnd(clean_row, 3)
         ELSE IF Len(clean_row) >= 5 /\ amount_check(FromEnd(clean_row, 5))
              THEN FromEnd(clean_row, 5)
              ELSE FromEnd(clean_row, 4)
    ELSE FromEnd(clean_row, 4)

PickAmount(clean_row) ==
    IF ~amount_check(FromEnd(clean_row, 4))
    THEN IF Len(clean_row) >= 5 /\ amount_check(FromEnd(clean_row, 5))
         THEN FromEnd(clean_row, 5)
         ELSE IF amount_check(FromEnd(clean_row, 3))
              THEN FromEnd(clean_row, 3)
              ELSE FromEnd(clean_row, 4)
    ELSE FromEnd(clean_row, 4)

\* The local variables after one iteration of the loop over the rows:
\* reached says how far the iteration went, emit whether a record was appended.
NoLocals ==
    [reached |-> "none", clean_row |-> <<>>, amount_raw |-> <<>>,
     vehicle_raw |-> <<>>, voucher_raw |-> <<>>, date_raw |-> <<>>,
     final_date |-> <<>>, emit |-> FALSE]

RowLocals(r) ==
    LET clean_row == CleanRow(r)
    IN  IF IsJunk(clean_row)
        THEN [NoLocals EXCEPT !.reached = "junk", !.clean_row = clean_row]
        ELSE IF Len(clean_row) < MinCols
        THEN [NoLocals EXCEPT !.reached = "short", !.clean_row = clean_row]
        ELSE LET amount_raw == PickAmount(clean_row)
                 vehicle_raw == FromEnd(clean_row, 8)
                 voucher_raw == clean_row[1]
                 date_raw == clean_row[2]
                 final_date == date_raw
             IN  [reached |-> "fields", clean_row |-> clean_row,
                  amount_raw |-> amount_raw, vehicle_raw |-> vehicle_raw,
                  voucher_raw |-> voucher_raw, date_raw |-> date_raw,
                  final_date |-> final_date,
                  emit |-> (amount_raw # <<>> \/ vehicle_raw # <<>>)]

\* What the iteration appends to extracted_data.
RowRecords(r) ==
    LET l == RowLocals(r)
    IN  IF l.emit
        THEN << [Vehicle |-> l.vehicle_raw, Voucher |-> l.voucher_raw,
                 Date |-> l.final_date, Amount |-> l.amount_raw] >>
        ELSE <<>>

(***************************************************************************)
(* clean_dataframe and clean_amt.                                          *)
(***************************************************************************)
\* A float that came from a decimal literal: its integer part and the digits
\* of its fraction without trailing zeros.
Zero == [int |-> 0, frac |-> <<>>]

RECURSIVE StripZeros(_)
StripZeros(s) ==
    IF s # <<>> /\ s[Len(s)] = "0"
    THEN StripZeros(SubSeq(s, 1, Len(s) - 1))
    ELSE s

\* x > 0 on floats
Positive(x) == x.int > 0 \/ x.frac # <<>>

\* float(s) of a text of digits and dots: ok is FALSE where float raises
\* ValueError (no digit at all, or more than one dot).
Float(s) ==
    LET dots == {i \in 1..Len(s) : s[i] = "."}
        p == IF dots = {} THEN Len(s) + 1 ELSE CHOOSE i \in dots : TRUE
        ip == SubSeq(s, 1, p - 1)
        fp == SubSeq(s, p + 1, Len(s))
    IN  IF Cardinality(dots) > 1 \/ Len(ip) + Len(fp) = 0
        THEN [ok |-> FALSE, val |-> Zero]
        ELSE [ok |-> TRUE, val |-> [int |-> ToInt(ip), frac |-> StripZeros(fp)]]

\* re.sub(r'[^\d\.]', '', str(x))
KeepDigitsDots(x) == SelectSeq(x, LAMBDA c : IsDigit(c) \/ c = ".")

\* clean_amt(x): raised tells whether an exception leaves the function.
clean_amt_NoTry(x) ==
    LET r == Float(KeepDigitsDots(x))
    IN  [raised |-> ~r.ok, value |-> r.val]

clean_amt(x) ==
    IF x = <<>> THEN [raised |-> FALSE, value |-> Zero]
    ELSE LET r == Float(KeepDigitsDots(x))
         IN  IF r.ok THEN [raised |-> FALSE, value |-> r.val]
             ELSE [raised |-> FALSE, value |-> Zero]

IsLeap(y) == (y % 4 = 0 /\ y % 100 # 0) \/ y % 400 = 0

DaysIn(m, y) ==
    IF m = 2 THEN (IF IsLeap(y) THEN 29 ELSE 28)
    ELSE IF m \in {4, 6, 9, 11} THEN 30 ELSE 31

AllDigits(s) == \A i \in 1..Len(s) : IsDigit(s[i])

\* pd.to_datetime(s, format='%d.%m.%y', errors='coerce') of one value:
\* %d and %m take one or two digits, %y exactly two (00-68 -> 20xx,
\* 69-99 -> 19xx); the whole text must match and be a calendar day.
to_datetime(s) ==
    IF s = NaN THEN NaT
    ELSE
    LET dots == {i \in 1..Len(s) : s[i] = "."}
    IN  IF Cardinality(dots) # 2 THEN NaT
        ELSE
        LET p1 == CHOOSE i \in dots : \A j \in dots : i <= j
            p2 == CHOOSE i \in dots : \A j \in dots : i >= j
            ds == SubSeq(s, 1, p1 - 1)
            ms == SubSeq(s, p1 + 1, p2 - 1)
            ys == SubSeq(s, p2 + 1, Len(s))
        IN  IF /\ Len(ds) \in {1, 2} /\ AllDigits(ds)
               /\ Len(ms) \in {1, 2} /\ AllDigits(ms)
               /\ Len(ys) = 2 /\ AllDigits(ys)
            THEN LET d == ToInt(ds)
                     m == ToInt(ms)
                     yy == ToInt(ys)
                     y == IF yy <= 68 THEN 2000 + yy ELSE 1900 + yy
                 IN  IF m \in 1..12 /\ d >= 1 /\ d <= DaysIn(m, y)
                     THEN [y |-> y, m |-> m, d |-> d]
                     ELSE NaT
            ELSE NaT

\* .dt.strftime('%d/%m/%Y') of one value
strftime(t) ==
    IF t = NaT THEN NaN
    ELSE Pad2(t.d) \o <<"/">> \o Pad2(t.m) \o <<"/">> \o Pad4(t.y)

\* Timestamp.isoformat()
isoformat(t) ==
    Pad4(t.y) \o <<"-">> \o Pad2(t.m) \o <<"-">> \o Pad2(t.d)
        \o <<"T", "0", "0", ":", "0", "0", ":", "0", "0">>

\* df['Date'].replace('', pd.NA).ffill() at row i (1-based) of data
FFill(data, i) ==
    LET js == {j \in 1..i : data[j].Date # <<>>}
    IN  IF js = {} THEN NaN
        ELSE data[CHOOSE j \in js : \A k \in js : k <= j].Date

\* The filter of the last line: Amount (Rs) > 0
KeepRow_GE(r) == TRUE

KeepRow(r) == Positive(r.Amount)

\* clean_dataframe(data); a row keeps its index label through the filter.
clean_dataframe(data) ==
    IF data = <<>> THEN <<>>
    ELSE
    LET full == [i \in 1..Len(data) |->
                   LET obj == to_datetime(FFill(data, i))
                   IN  [index |-> i - 1,
                        Vehicle |-> data[i].Vehicle,
                        Voucher |-> data[i].Voucher,
                        Date |-> strftime(obj),
                        Amount |-> clean_amt(data[i].Amount).value,
                        Date_Obj |-> obj]]
    IN  SelectSeq(full, KeepRow)

(***************************************************************************)
(* save_to_firestore. The collection is a set of documents, each an id     *)
(* and its fields; set() replaces the document of that id.                 *)
(***************************************************************************)
\* str(row['Date'])
StrDate(d) == IF d = NaN THEN <<"n", "a", "n">> ELSE d

doc_id_NoAmount(r) ==
    r.Voucher \o <<"_">> \o RemoveSlashes(StrDate(r.Date))

doc_id(r) ==
    r.Voucher \o <<"_">> \o RemoveSlashes(StrDate(r.Date)) \o <<"_">>
        \o IntToStr(r.Amount.int)

\* row.to_dict() with Date_Obj as text, or None
row_data(r) ==
    [Vehicle |-> r.Vehicle, Voucher |-> r.Voucher, Date |-> r.Date,
     Amount |-> r.Amount,
     Date_Obj |-> IF r.Date_Obj # NaT THEN isoformat(r.Date_Obj) ELSE None]

\* collection_ref.document(id).set(data)
SetDoc(coll, id, data) ==
    {e \in coll : e.id # id} \cup {[id |-> id, data |-> data]}

RECURSIVE SaveRows(_, _)
SaveRows(coll, rows) ==
    IF rows = <<>> THEN coll
    ELSE SaveRows(SetDoc(coll, doc_id(rows[1]), row_data(rows[1])), Tail(rows))

\* The collection after save_to_firestore(d), and the count it returns.
save_to_firestore(database, coll, d) ==
    IF database = "none" THEN [coll |-> coll, count |-> 0]
    ELSE [coll |-> SaveRows(coll, d), count |-> Len(d)]

(***************************************************************************)
(* The inputs: cells, rows of a table, amount tokens, earlier documents.   *)
(***************************************************************************)
V1 == <<"V", "1">>
KA1 == <<"K", "A", "1">>
D010124 == <<"0", "1", ".", "0", "1", ".", "2", "4">>
D050324 == <<"0", "5", ".", "0", "3", ".", "2", "4">>
NotADate == <<"a", "b">>
Amt1234 == <<"1", ",", "2", "3", "4", ".", "5", "0">>
AmtNA == <<"N", "/", "A">>

\* A row of n cells: the first three columns, the cells at -5, -4 and -3 and
\* the last cell are given, the cells at -2 and any other are empty.
RowOf(n, c0, c1, c2, a5, a4, a3, last) ==
    [i \in 1..n |->
        IF i = n THEN last
        ELSE IF i = n - 2 THEN a3
        ELSE IF i = n - 3 THEN a4
        ELSE IF i = n - 4 THEN a5
        ELSE IF i = 1 THEN c0
        ELSE IF i = 2 THEN c1
        ELSE IF i = 3 THEN c2
        ELSE <<>>]

\* The rows the row-level specification draws from.
RowSet ==
    {RowOf(n, c0, c1, c2, a5, a4, a3, last) :
        n \in (MinCols - 1)..MaxCols,
        c0 \in {None, V1, D050324},
        c1 \in {<<>>, D010124, NotADate},
        c2 \in {<<>>, KA1},
        a5 \in {<<>>, <<"7", "5">>, <<"x">>, <<"N", "o", " ", "3">>},
        a4 \in {None, <<>>, <<" ", "1", "0", "0", NL>>, <<"5">>, AmtNA,
                <<"A", "1">>, Amt1234, <<"-", "2", "0">>},
        a3 \in {<<>>, <<"3", "0">>, <<"x", "9">>,
                <<"S", "u", "b", NL, "T", "o", "t", "a", "l">>},
        last \in {<<>>, TotalMarker, <<" ", NL>>}}

\* The rows of the documents of the upload flow: 7 or 8 columns, so that the
\* vehicle column (-8) is the first column.
DocRows ==
    {RowOf(n, c0, c1, <<>>, <<>>, a4, <<>>, last) :
        n \in (MinCols - 1)..MinCols,
        c0 \in {V1, D050324},
        c1 \in {<<>>, D010124, NotADate},
        a4 \in {<<>>, Amt1234, AmtNA},
        last \in {<<>>, TotalMarker}}

AmtAlphabet == {"0", "1", "5", ".", ",", "-", "N"}

\* The amount tokens: every text over AmtAlphabet of at most MaxTokLen characters.
Tokens == UNION {[1..n -> AmtAlphabet] : n \in 0..MaxTokLen}

\* Collections that earlier sessions left: empty, or the save of one earlier
\* document whose row has the id of a row of DocRows with other fields, or
\* another id.
PriorData ==
    { << [Vehicle |-> KA1, Voucher |-> V1, Date |-> D010124, Amount |-> Amt1234] >>,
      << [Vehicle |-> KA1, Voucher |-> KA1, Date |-> D050324, Amount |-> <<"7", "5">>] >> }

InitStores ==
    {{}} \cup {SaveRows({}, clean_dataframe(d)) : d \in PriorData}

NoAmt == [raised |-> FALSE, value |-> Zero]
NoCurrent == [set |-> FALSE, df |-> <<>>]

(***************************************************************************)
(* Spec: main() for one uploaded document. Tab 1 scans the pages of the    *)
(* document row by row (extract_data), cleans and reports; tab 2 saves     *)
(* st.session_state['current_df'] on each press of the button.             *)
(***************************************************************************)
Init ==
    /\ pc = "scan"
    /\ page = 1
    /\ nrows = 0
    /\ raw_data = <<>>
    /\ df = <<>>
    /\ message = "none"
    /\ current_df = NoCurrent
    /\ db \in {"none", "client"}
    /\ store \in InitStores
    /\ saves = 0
    /\ row = <<>>
    /\ locals = NoLocals
    /\ amt = NoAmt

\* One iteration of "for row in table" on the current page.
ReadRow ==
    /\ pc = "scan"
    /\ nrows < MaxRows
    /\ \E r \in DocRows : raw_data' = raw_data \o RowRecords(r)
    /\ nrows' = nrows + 1
    /\ UNCHANGED <<pc, page, df, message, current_df, db, store, saves, row,
                   locals, amt>>

\* "for i, page in enumerate(pdf.pages)" moves to the next page; a page
\* without a table is passed this way too.
NextPage ==
    /\ pc = "scan"
    /\ page < MaxPages
    /\ page' = page + 1
    /\ UNCHANGED <<pc, nrows, raw_data, df, message, current_df, db, store,
                   saves, row, locals, amt>>

\* return extracted_data
EndScan ==
    /\ pc = "scan"
    /\ pc' = "extracted"
    /\ UNCHANGED <<page, nrows, raw_data, df, message, current_df, db, store,
                   saves, row, locals, amt>>

\* Tab 1 after extract_data: "if raw_data: ... else: st.error(...)".
Tab1Report ==
    /\ pc = "extracted"
    /\ IF raw_data # <<>>
       THEN /\ df' = clean_dataframe(raw_data)
            /\ message' = "success"
            /\ current_df' = [set |-> TRUE, df |-> df']
       ELSE /\ message' = "no_data"
            /\ UNCHANGED <<df, current_df>>
    /\ pc' = "tab1"
    /\ UNCHANGED <<page, nrows, raw_data, db, store, saves, row, locals, amt>>

\* Tab 2: the button "Save Records to Database".
SaveButton ==
    /\ pc \in {"tab1", "tab2"}
    /\ current_df.set
    /\ saves < MaxSaves
    /\ IF db # "none"
       THEN store' = save_to_firestore(db, store, current_df.df).coll
       ELSE UNCHANGED store
    /\ saves' = saves + 1
    /\ pc' = "tab2"
    /\ UNCHANGED <<page, nrows, raw_data, df, message, current_df, db, row,
                   locals, amt>>

Next == ReadRow \/ NextPage \/ EndScan \/ Tab1Report \/ SaveButton

Spec == Init /\ [][Next]_vars

(***************************************************************************)
(* SpecRow: one iteration of the loop of extract_data on one raw row.      *)
(***************************************************************************)
InitRow ==
    /\ pc = "row"
    /\ row \in RowSet
    /\ page = 1
    /\ nrows = 0
    /\ raw_data = <<>>
    /\ df = <<>>
    /\ message = "none"
    /\ current_df = NoCurrent
    /\ db = "none"
    /\ store = {}
    /\ saves = 0
    /\ locals = NoLocals
    /\ amt = NoAmt

DoRow ==
    /\ pc = "row"
    /\ locals' = RowLocals(row)
    /\ raw_data' = raw_data \o RowRecords(row)
    /\ nrows' = nrows + 1
    /\ pc' = "rowdone"
    /\ UNCHANGED <<page, df, message, current_df, db, store, saves, row, amt>>

NextRow == DoRow

SpecRow == InitRow /\ [][NextRow]_vars

(***************************************************************************)
(* SpecAmt: clean_amt on one amount token, then clean_dataframe on the     *)
(* record that carries it.                                                 *)
(***************************************************************************)
InitAmt ==
    /\ pc = "amt"
    /\ \E x \in Tokens :
         raw_data = << [Vehicle |-> KA1, Voucher |-> V1, Date |-> D010124,
                        Amount |-> x] >>
    /\ page = 1
    /\ nrows = 1
    /\ df = <<>>
    /\ message = "none"
    /\ current_df = NoCurrent
    /\ db = "none"
    /\ store = {}
    /\ saves = 0
    /\ row = <<>>
    /\ locals = NoLocals
    /\ amt = NoAmt

ApplyCleanAmt ==
    /\ pc = "amt"
    /\ amt' = clean_amt(raw_data[1].Amount)
    /\ pc' = "amtdone"
    /\ UNCHANGED <<page, nrows, raw_data, df, message, current_df, db, store,
                   saves, row, locals>>

ApplyCleanDataframe ==
    /\ pc = "amtdone"
    /\ df' = clean_dataframe(raw_data)
    /\ pc' = "filtered"
    /\ UNCHANGED <<page, nrows, raw_data, message, current_df, db, store,
                   saves, row, locals, amt>>

NextAmt == ApplyCleanAmt \/ ApplyCleanDataframe

SpecAmt == InitAmt /\ [][NextAmt]_vars

(***************************************************************************)
(* Properties.                                                             *)
(***************************************************************************)
HasDigit(s) == \E i \in 1..Len(s) : s[i] \in Digits
DotCount(s) == Cardinality({i \in 1..Len(s) : s[i] = "."})
Reported == pc \in {"tab1", "tab2"}

\* The record of raw_data a row of the result set came from.
RawOf(r) == raw_data[r.index + 1]

\* A date cell that is a valid DD.MM.YY date.
ValidDate(s) == to_datetime(s) # NaT

\* C1: every row of the result set of clean_dataframe has an amount strictly
\* greater than zero; a record whose amount token is empty or has no digit
\* has no row in the result set.
C1_PositiveAmounts ==
    /\ \A i \in 1..Len(df) :
          /\ df[i].Amount.int >= 0
          /\ df[i].Amount.int > 0 \/ df[i].Amount.frac # <<>>
    /\ Reported =>
          \A k \in 1..Len(raw_data) :
              ~HasDigit(raw_data[k].Amount) =>
                  \A i \in 1..Len(df) : df[i].index # k - 1

C1_Witness ==
    /\ pc = "tab1"
    /\ df # <<>>
    /\ \E k \in 1..Len(raw_data) :
          /\ ~HasDigit(raw_data[k].Amount)
          /\ \E i \in 1..Len(df) : df[i].index > k - 1

\* C2: after extract_data and clean_dataframe no row of the result set has a
\* blank date.
C2_NoBlankDate ==
    \A i \in 1..Len(df) : df[i].Date # NaN /\ df[i].Date_Obj # NaT

\* C3: a row of the result set whose date cell is missing or not a valid date
\* has the date of the nearest preceding row with a valid date; a row with a
\* valid date keeps its own.
C3_FillDownNearestValid ==
    Reported =>
        \A i \in 1..Len(df) :
            LET k == df[i].index + 1
                js == {j \in 1..k : ValidDate(raw_data[j].Date)}
            IN  js # {} =>
                    df[i].Date_Obj =
                        to_datetime(raw_data[CHOOSE j \in js : \A h \in js : h <= j].Date)

RECURSIVE CurrentDate(_, _)
\* The current date of the fill-down after row k: the date cell when it is
\* valid, else the first column when that is a valid date, else as before.
CurrentDate(data, k) ==
    IF k = 0 THEN NaN
    ELSE IF ValidDate(data[k].Date) THEN data[k].Date
    ELSE IF ValidDate(data[k].Voucher) THEN data[k].Voucher
    ELSE CurrentDate(data, k - 1)

\* C10: a row whose date cell is not a valid date and whose first column is
\* one has that first-column date as its date, and so have the rows after it
\* without a valid date, until a row supplies a new date.
C10_DateFromFirstColumn ==
    Reported =>
        \A i \in 1..Len(df) :
            LET k == df[i].index + 1
            IN  (/\ ~ValidDate(raw_data[k].Date)
                 /\ \E j \in 1..k :
                       /\ ~ValidDate(raw_data[j].Date)
                       /\ ValidDate(raw_data[j].Voucher)
                       /\ CurrentDate(raw_data, k) = raw_data[j].Voucher
                       /\ \A h \in j..k : ~ValidDate(raw_data[h].Date))
                => df[i].Date_Obj = to_datetime(CurrentDate(raw_data, k))

\* C7: when the processing of the document ends with an empty result set, the
\* upload tab reports "no data found" and not a success.
C7_EmptyReportsNoData ==
    (pc = "tab1" /\ df = <<>>) => message = "no_data"

\* The id the persistence contract gives a row: voucher, the digits of the
\* date (or the text of a missing date), the integer part of the amount.
ContractKey(r) ==
    r.Voucher \o <<"_">>
        \o (IF r.Date_Obj = NaT THEN <<"n", "a", "n">>
            ELSE Pad2(r.Date_Obj.d) \o Pad2(r.Date_Obj.m) \o Pad4(r.Date_Obj.y))
        \o <<"_">> \o IntToStr(r.Amount.int)

\* C6: a save writes each row of the result set under its contract id, and a
\* second save of the same result set leaves the collection as the first
\* save left it.
C6_SaveIdempotent ==
    [][(saves' = saves + 1 /\ db # "none") =>
          LET rows == current_df.df
              keys == {ContractKey(rows[i]) : i \in 1..Len(rows)}
          IN  /\ {e.id : e \in store'} = {e.id : e \in store} \cup keys
              /\ \A e \in store' :
                    \/ e \in store /\ e.id \notin keys
                    \/ \E i \in 1..Len(rows) :
                          /\ e.id = ContractKey(rows[i])
                          /\ e.data.Voucher = rows[i].Voucher
                          /\ e.data.Amount = rows[i].Amount
                          /\ e.data.Date = rows[i].Date
              /\ \A e1, e2 \in store' : e1.id = e2.id => e1 = e2
              /\ saves >= 1 => store' = store]_vars

C6_Witness ==
    /\ saves = 2
    /\ db = "client"
    /\ Len(current_df.df) >= 2
    /\ Cardinality(store) >= 2
    /\ \E e \in store : e.data.Vehicle = KA1

\* The three admission checks on the cleaned cells of a row.
Admitted(r) ==
    /\ Len(r) >= 8
    /\ \E i \in 1..Len(r) : CleanCell(r[i]) # <<>>
    /\ \A i \in 1..Len(r) : ~Contains(CleanCell(r[i]), TotalMarker)

\* C4: extract_data appends a record for a row only if the cleaned row has at
\* least 8 cells, a non-empty cell and no cell with the marker "Total"; a row
\* failing one of these appends nothing and never reaches the offset rules.
C4_EmitOnlyAdmitted ==
    pc = "rowdone" =>
        /\ raw_data # <<>> => Admitted(row)
        /\ ~Admitted(row) =>
              /\ raw_data = <<>>
              /\ locals.reached # "fields"
              /\ ~locals.emit
        /\ Admitted(row) => locals.reached = "fields"

C4_Witness ==
    /\ pc = "rowdone"
    /\ Len(row) >= 8
    /\ \E i \in 1..Len(row) : row[i] # None /\ Contains(row[i], <<NL, "T", "o", "t", "a", "l">>)
    /\ CleanCell(row[Len(row) - 3]) = <<"1", "0", "0">>
    /\ raw_data = <<>>

\* C8 as stated: the -4 cell counts as the amount only when the whole cell
\* has the monetary-token shape and at least 2 characters; when it fails that
\* and the -5 or the -3 cell passes, the amount is the passing neighbour.
C8_MoneyShapeValidation ==
    (pc = "rowdone" /\ locals.reached = "fields") =>
        LET c == locals.clean_row
            c5 == c[Len(c) - 4]
            c4 == c[Len(c) - 3]
            c3 == c[Len(c) - 2]
        IN  (~MoneyShape(c4) /\ (MoneyShape(c5) \/ MoneyShape(c3))) =>
                /\ locals.amount_raw # c4
                /\ \/ MoneyShape(c5) /\ locals.amount_raw = c5
                   \/ MoneyShape(c3) /\ locals.amount_raw = c3

\* C8 amended: the -4 cell is the amount whenever it contains a digit; when it
\* contains none and the -5 or the -3 cell contains one, the amount is such a
\* neighbour and not the -4 cell.
C8_DigitValidation ==
    (pc = "rowdone" /\ locals.reached = "fields") =>
        LET c == locals.clean_row
            c5 == c[Len(c) - 4]
            c4 == c[Len(c) - 3]
            c3 == c[Len(c) - 2]
        IN  /\ HasDigit(c4) => locals.amount_raw = c4
            /\ (~HasDigit(c4) /\ (HasDigit(c5) \/ HasDigit(c3))) =>
                  /\ locals.amount_raw # c4
                  /\ HasDigit(locals.amount_raw)
                  /\ locals.amount_raw \in {c5, c3}

C8_Witness ==
    /\ pc = "rowdone"
    /\ locals.reached = "fields"
    /\ LET c == locals.clean_row
       IN  /\ c[Len(c) - 3] = <<"A", "1">>
           /\ MoneyShape(c[Len(c) - 4])
           /\ locals.amount_raw = <<"A", "1">>

\* C9: the amount is the -4 cell when it passes the check; else the -5 cell
\* when that passes; else the -3 cell when that passes; else the -4 cell
\* unchanged.
C9_FallbackOrder ==
    (pc = "rowdone" /\ locals.reached = "fields") =>
        LET c == locals.clean_row
            c5 == c[Len(c) - 4]
            c4 == c[Len(c) - 3]
            c3 == c[Len(c) - 2]
        IN  locals.amount_raw =
                IF HasDigit(c4) THEN c4
                ELSE IF HasDigit(c5) THEN c5
                ELSE IF HasDigit(c3) THEN c3
                ELSE c4

C9_Witness ==
    /\ pc = "rowdone"
    /\ locals.reached = "fields"
    /\ LET c == locals.clean_row
       IN  /\ ~HasDigit(c[Len(c) - 3])
           /\ c[Len(c) - 3] # <<>>
           /\ HasDigit(c[Len(c) - 4])
           /\ HasDigit(c[Len(c) - 2])
           /\ c[Len(c) - 4] # c[Len(c) - 2]
           /\ locals.amount_raw = c[Len(c) - 4]

\* C5: clean_amt never raises and returns a value >= 0; an empty token, a
\* token without a digit and a token whose digits and dots do not parse give
\* exactly 0.0, and the row of such an amount is not in the result set.
C5_CleanAmtNeverRaises ==
    LET x == raw_data[1].Amount
        kept == SelectSeq(x, LAMBDA ch : ch \in Digits \/ ch = ".")
    IN  /\ pc \in {"amtdone", "filtered"} =>
              /\ ~amt.raised
              /\ amt.value.int >= 0
              /\ (x = <<>> \/ ~HasDigit(x) \/ DotCount(x) > 1) => amt.value = Zero
              /\ (HasDigit(x) /\ DotCount(x) = 0) =>
                    amt.value = [int |-> ToInt(kept), frac |-> <<>>]
        /\ pc = "filtered" =>
              /\ amt.value = Zero => df = <<>>
              /\ amt.value # Zero => Len(df) = 1 /\ df[1].Amount = amt.value

C5_Witness ==
    /\ pc = "filtered"
    /\ raw_data[1].Amount = <<"1", ".", ".", "5">>
    /\ amt = [raised |-> FALSE, value |-> Zero]
    /\ df = <<>>

====
